---- MODULE Spec2Model ----
(***************************************************************************)
(* Model of the NCC report pipeline:                                       *)
(*   - src/src/merge_tables.py: clean_df, process_excel_tables and the     *)
(*     main block that writes merged_clients.csv;                          *)
(*   - src/src/streamlit_ncc_dashboard.py: the sidebar selections and the  *)
(*     filtering logic that computes df_filtered.                          *)
(*                                                                         *)
(* A character string is a sequence of one-character strings, so that      *)
(* str.strip() and astype(str) are computed and not assumed.  A cell of    *)
(* the sheet is a record [t, s, n]: a missing cell (NaN), a text cell or   *)
(* a numeric cell.  A value that may be absent (the returned table, the    *)
(* raised exception, the output file) is a sequence of length 0 or 1.      *)
(***************************************************************************)
EXTENDS Integers, Sequences, FiniteSets, TLC

VARIABLES
    pc,                  \* position of the main block: start, merged, failed, done
    df_all,              \* the grid read by pd.read_excel (<<>> before the read)
    split,               \* <<df1, df2>> as sliced, before clean_df; <<>> if not reached
    result,              \* <<merged_df>> once process_excel_tables returned, else <<>>
    err,                 \* <<exception>> once process_excel_tables raised, else <<>>
    merged_clients_csv,  \* the output file: <<>> absent, <<table>> present
    df,                  \* dashboard: the table returned by load_data()
    regions,             \* dashboard: the four multiselect values
    states,
    client_types,
    statuses,
    df_filtered          \* dashboard: the filtered table

pipeVars == <<pc, df_all, split, result, err, merged_clients_csv>>
dashVars == <<df, regions, states, client_types, statuses, df_filtered>>
vars == <<pc, df_all, split, result, err, merged_clients_csv,
          df, regions, states, client_types, statuses, df_filtered>>

\* Longest sheet (in rows) the model reads.
MaxRows == 5
\* Longest dashboard table (in rows) the model loads.
MaxDfRows == 2

(***************************************************************************)
(* Cells and strings                                                       *)
(***************************************************************************)
NaN == [t |-> "nan", s |-> <<>>, n |-> 0]
Str(cs) == [t |-> "str", s |-> cs, n |-> 0]
Num(k) == [t |-> "num", s |-> <<>>, n |-> k]

\* str(int) for a non-negative integer.
RECURSIVE int_str(_)
int_str(k) ==
    LET digit(d) == <<"0", "1", "2", "3", "4", "5", "6", "7", "8", "9">>[d + 1]
    IN  IF k < 10 THEN <<digit(k)>>
        ELSE int_str(k \div 10) \o <<digit(k % 10)>>

\* Series.astype(str) on one cell: NaN becomes the text "nan".
astype_str(c) ==
    CASE c.t = "nan" -> <<"n", "a", "n">>
      [] c.t = "str" -> c.s
      [] c.t = "num" -> int_str(c.n)

RECURSIVE lstrip(_)
lstrip(s) == IF s # <<>> /\ Head(s) = " " THEN lstrip(Tail(s)) ELSE s

RECURSIVE rstrip(_)
rstrip(s) ==
    IF s # <<>> /\ s[Len(s)] = " " THEN rstrip(SubSeq(s, 1, Len(s) - 1)) ELSE s

\* Series.str.strip() on one string.
strip(s) == rstrip(lstrip(s))

\* The default of the header_marker parameter, which the main block uses.
header_marker == <<"S", "/", "N">>

\* The column label tested and overwritten by the renumbering.
SeqLabel == Str(<<"S", "/", "N">>)

(***************************************************************************)
(* The sheets the model reads: every sequence of at most MaxRows rows,     *)
(* each row one of these two-cell rows.                                    *)
(***************************************************************************)
HeaderRow == <<Str(<<"S", "/", "N">>), Str(<<"N", "M">>)>>
PaddedHeaderRow == <<Str(<<" ", "S", "/", "N">>), Str(<<"N", "M">>)>>
BlankRow == <<NaN, NaN>>
FullRow == <<Num(17), Str(<<"a">>)>>
PartRow == <<NaN, Str(<<"b">>)>>

RowKinds == {HeaderRow, PaddedHeaderRow, BlankRow, FullRow, PartRow}

Grids == UNION {[1..k -> RowKinds] : k \in 0..MaxRows}

\* What pd.read_excel can raise instead of returning a grid.
LoadErrors == {"SourceNotFound", "SheetNotFound", "UnreadableFormat"}

Loads == {[ok |-> TRUE, grid |-> g, error |-> ""] : g \in Grids}
         \cup {[ok |-> FALSE, grid |-> <<>>, error |-> e] : e \in LoadErrors}

(***************************************************************************)
(* Exceptions: [kind, text, marker, count, segment].  marker and count     *)
(* are the values formatted into the message (<<>> and -1 when it has      *)
(* none); segment is the table the message names ("" when it names none).  *)
(***************************************************************************)
LoadFailure(e) == [kind |-> e, text |-> "", marker |-> <<>>, count |-> -1, segment |-> ""]

IndexError ==
    [kind |-> "IndexError", text |-> "single positional indexer is out-of-bounds",
     marker |-> <<>>, count |-> -1, segment |-> ""]

HeaderRowsError(marker, found) ==
    [kind |-> "ValueError", text |-> "Could not find two header rows with marker",
     marker |-> marker, count |-> found, segment |-> ""]

EmptyTablesError ==
    [kind |-> "ValueError", text |-> "One or both extracted tables are empty.",
     marker |-> <<>>, count |-> -1, segment |-> ""]

(***************************************************************************)
(* process_excel_tables.  Positions are 0-based as in pandas: position i   *)
(* of the grid is grid[i + 1].  A row of a table is [src, cells]: cells    *)
(* are its values, src the position in the grid it was sliced from (the    *)
(* index label iloc keeps; reset_index replaces the label, src is kept     *)
(* here only to say where a merged row came from).                         *)
(***************************************************************************)
IsMarkerRow(row) == strip(astype_str(row[1])) = header_marker

\* df_all.index[df_all.iloc[:, 0].astype(str).str.strip() == header_marker].tolist()
RECURSIVE MatchesFrom(_, _)
MatchesFrom(grid, i) ==
    IF i >= Len(grid) THEN <<>>
    ELSE (IF IsMarkerRow(grid[i + 1]) THEN <<i>> ELSE <<>>) \o MatchesFrom(grid, i + 1)

header_rows(grid) == MatchesFrom(grid, 0)

\* df_all.iloc[a:b]: positions a .. b-1, clipped to the grid.
Iloc(grid, a, b) ==
    LET hi == IF b < Len(grid) THEN b ELSE Len(grid)
        cnt == IF hi > a THEN hi - a ELSE 0
    IN  [k \in 1..cnt |-> [src |-> a + k - 1, cells |-> grid[a + k]]]

AllNaN(cells) == \A c \in 1..Len(cells) : cells[c].t = "nan"

clean_df_any(rows) ==
    SelectSeq(rows, LAMBDA r : ~(\E c \in 1..Len(r.cells) : r.cells[c].t = "nan"))

\* dropna(how='all') then reset_index(drop=True): the kept rows, in order.
clean_df(rows) == SelectSeq(rows, LAMBDA r : ~AllNaN(r.cells))

Table1Inclusive(grid, hr) == Iloc(grid, hr[1], hr[2])

\* df_all.iloc[header_rows[0] + 1 : header_rows[1]]
Table1(grid, hr) == Iloc(grid, hr[1] + 1, hr[2])

Table2AfterLast(grid, hr) == Iloc(grid, hr[Len(hr)] + 1, Len(grid))

\* df_all.iloc[header_rows[1] + 1 :]
Table2(grid, hr) == Iloc(grid, hr[2] + 1, Len(grid))

TablesEmptyBoth(df1, df2) == df1 = <<>> /\ df2 = <<>>

\* df1.empty or df2.empty
TablesEmpty(df1, df2) == df1 = <<>> \/ df2 = <<>>

ConcatSwapped(header, df1, df2) == [columns |-> header, rows |-> df2 \o df1]

ConcatTagged(header, df1, df2) ==
    LET tag(rows, label) ==
            [k \in 1..Len(rows) |->
                [rows[k] EXCEPT !.cells = Append(@, Str(<<label>>))]]
    IN  [columns |-> Append(header, Str(<<"origin">>)),
         rows |-> tag(df1, "Corporate") \o tag(df2, "Retail")]

\* pd.concat([df1, df2], ignore_index=True), both tables having columns = header.
Concat(header, df1, df2) == [columns |-> header, rows |-> df1 \o df2]

HasSeqColumn(columns) == \E c \in 1..Len(columns) : columns[c] = SeqLabel

RenumberFromZero(t) ==
    [t EXCEPT !.rows =
        [k \in 1..Len(t.rows) |->
            [t.rows[k] EXCEPT !.cells =
                [c \in 1..Len(@) |->
                    IF t.columns[c] = SeqLabel THEN Num(k - 1) ELSE @[c]]]]]

\* if "S/N" in merged_df.columns: merged_df["S/N"] = range(1, len(merged_df) + 1)
Renumber(t) ==
    IF HasSeqColumn(t.columns)
    THEN [t EXCEPT !.rows =
            [k \in 1..Len(t.rows) |->
                [t.rows[k] EXCEPT !.cells =
                    [c \in 1..Len(@) |->
                        IF t.columns[c] = SeqLabel THEN Num(k) ELSE @[c]]]]]
    ELSE t

Raised(e, sp) == [err |-> <<e>>, result |-> <<>>, split |-> sp, grid |-> <<>>]

\* The whole function, on the outcome `load` of pd.read_excel.
process_excel_tables(load) ==
    IF ~load.ok THEN Raised(LoadFailure(load.error), <<>>)
    ELSE
    LET grid == load.grid
        out(r) == [r EXCEPT !.grid = grid]
    IN  IF grid = <<>> THEN out(Raised(IndexError, <<>>))
        ELSE
        LET hr == header_rows(grid)
        IN  IF Len(hr) < 2 THEN out(Raised(HeaderRowsError(header_marker, Len(hr)), <<>>))
            ELSE
            LET header == grid[hr[1] + 1]
                raw1 == Table1(grid, hr)
                raw2 == Table2(grid, hr)
                df1 == clean_df(raw1)
                df2 == clean_df(raw2)
            IN  IF TablesEmpty(df1, df2)
                THEN out(Raised(EmptyTablesError, <<raw1, raw2>>))
                ELSE out([err |-> <<>>,
                          result |-> <<Renumber(Concat(header, df1, df2))>>,
                          split |-> <<raw1, raw2>>,
                          grid |-> <<>>])

\* DataFrame.to_csv(index=False): the column labels and the cells of each row.
to_csv(t) == [columns |-> t.columns, rows |-> [k \in 1..Len(t.rows) |-> t.rows[k].cells]]

\* A file an earlier run left at the output path.
OldCsv ==
    [columns |-> HeaderRow,
     rows |-> <<<<Num(1), Str(<<"a">>)>>, <<Num(2), Str(<<"b">>)>>>>]

(***************************************************************************)
(* The main block                                                          *)
(***************************************************************************)
DashIdle ==
    /\ df = <<>>
    /\ regions = {}
    /\ states = {}
    /\ client_types = {}
    /\ statuses = {}
    /\ df_filtered = <<>>

Init ==
    /\ pc = "start"
    /\ df_all = <<>>
    /\ split = <<>>
    /\ result = <<>>
    /\ err = <<>>
    /\ merged_clients_csv \in {<<>>, <<OldCsv>>}
    /\ DashIdle

\* result = process_excel_tables(file_path, sheet_name), returning or raising.
Process ==
    /\ pc = "start"
    /\ \E load \in Loads :
         LET r == process_excel_tables(load)
         IN  /\ df_all' = r.grid
             /\ split' = r.split
             /\ result' = r.result
             /\ err' = r.err
             /\ pc' = IF r.err = <<>> THEN "merged" ELSE "failed"
    /\ UNCHANGED <<merged_clients_csv, dashVars>>

WriteReachedAlways == pc \in {"merged", "failed"}

\* The statement after the call in the try block is reached only if it returned.
WriteReached == pc = "merged"

\* result.to_csv("merged_clients.csv", index=False)
WriteCsv ==
    /\ WriteReached
    /\ merged_clients_csv' = IF result = <<>> THEN <<>> ELSE <<to_csv(result[1])>>
    /\ pc' = "done"
    /\ UNCHANGED <<df_all, split, result, err, dashVars>>

\* except Exception as e: print(f"Failed to process file: ...")
ReportFailure ==
    /\ pc = "failed"
    /\ pc' = "done"
    /\ UNCHANGED <<df_all, split, result, err, merged_clients_csv, dashVars>>

Next == Process \/ WriteCsv \/ ReportFailure

Spec == Init /\ [][Next]_vars

(***************************************************************************)
(* The dashboard script.  Streamlit runs the whole script again after each *)
(* change of a widget, so each action below is one run of the script from  *)
(* the widgets to df_filtered.  df is the table load_data() returned.      *)
(***************************************************************************)
DashRow(r, s, c, u) == [region |-> r, state |-> s, client |-> c, status |-> u]

DashRowKinds ==
    {DashRow("North", "Kano", "Corporate", "Connected"),
     DashRow("North", "Kano", "Retail", "Disconnected"),
     DashRow("South", "Lagos", "Corporate", "Disconnected"),
     DashRow("South", "Lagos", "Retail", "Connected"),
     DashRow("South", "Kano", "Corporate", "Connected"),
     DashRow("North", "Abuja", "Sme", "Connected")}

DashTables == UNION {[1..k -> DashRowKinds] : k \in 1..MaxDfRows}

\* options=["Corporate", "Retail"] and options=["Connected", "Disconnected"]
ClientTypeOptions == {"Corporate", "Retail"}
StatusOptions == {"Connected", "Disconnected"}

\* df["REGION"].unique()
RegionOptions(t) == {t[k].region : k \in 1..Len(t)}

\* df[df["REGION"].isin(regions)]["STATE"].unique() if regions else df["STATE"].unique()
StateOptions(t, rs) ==
    IF rs # {} THEN {t[k].state : k \in {j \in 1..Len(t) : t[j].region \in rs}}
    ELSE {t[k].state : k \in 1..Len(t)}

\* Series.isin(values): one boolean per row.
IsinMask(t, column, values) ==
    [k \in 1..Len(t) |->
        CASE column = "REGION" -> t[k].region \in values
          [] column = "STATE" -> t[k].state \in values
          [] column = "CLIENT" -> t[k].client \in values
          [] column = "CUSTOMER STATUS" -> t[k].status \in values]

\* The list `conditions`: one mask per non-empty selection, in the order appended.
Conditions(t, rs, ss, cs, us) ==
    (IF rs # {} THEN <<IsinMask(t, "REGION", rs)>> ELSE <<>>)
    \o (IF ss # {} THEN <<IsinMask(t, "STATE", ss)>> ELSE <<>>)
    \o (IF cs # {} THEN <<IsinMask(t, "CLIENT", cs)>> ELSE <<>>)
    \o (IF us # {} THEN <<IsinMask(t, "CUSTOMER STATUS", us)>> ELSE <<>>)

CombineOr(x, y) == [k \in 1..Len(x) |-> x[k] \/ y[k]]

\* lambda x, y: x & y
Combine(x, y) == [k \in 1..Len(x) |-> x[k] /\ y[k]]

\* functools.reduce(f, conds) on a non-empty list: left fold.
RECURSIVE ReduceFrom(_, _)
ReduceFrom(acc, conds) ==
    IF conds = <<>> THEN acc ELSE ReduceFrom(Combine(acc, Head(conds)), Tail(conds))

\* df[mask]: the rows whose mask entry is True, in order.
RECURSIVE BoolIndex(_, _, _)
BoolIndex(t, mask, k) ==
    IF k > Len(t) THEN <<>>
    ELSE (IF mask[k] THEN <<t[k]>> ELSE <<>>) \o BoolIndex(t, mask, k + 1)

\* df_filtered = df[reduce(lambda x, y: x & y, conditions)] if conditions else df
Filtered(t, rs, ss, cs, us) ==
    LET conditions == Conditions(t, rs, ss, cs, us)
    IN  IF conditions # <<>>
        THEN BoolIndex(t, ReduceFrom(Head(conditions), Tail(conditions)), 1)
        ELSE t

PipeIdle ==
    /\ pc = "start"
    /\ df_all = <<>>
    /\ split = <<>>
    /\ result = <<>>
    /\ err = <<>>
    /\ merged_clients_csv = <<>>

\* The first run of the script: every multiselect holds its default.
InitDash ==
    /\ PipeIdle
    /\ df \in DashTables
    /\ regions = RegionOptions(df)
    /\ states = StateOptions(df, RegionOptions(df))
    /\ client_types = ClientTypeOptions
    /\ statuses = StatusOptions
    /\ df_filtered = Filtered(df, RegionOptions(df), StateOptions(df, RegionOptions(df)),
                              ClientTypeOptions, StatusOptions)

\* The user changes the region selection.  The options of the state widget
\* depend on it: when they change, the state widget is a new widget and holds
\* its default (all its options); otherwise it keeps its value.
SelectRegions ==
    \E rs \in SUBSET RegionOptions(df) :
        /\ rs # regions
        /\ regions' = rs
        /\ states' = IF StateOptions(df, rs) = StateOptions(df, regions)
                     THEN states ELSE StateOptions(df, rs)
        /\ df_filtered' = Filtered(df, rs, states', client_types, statuses)
        /\ UNCHANGED <<df, client_types, statuses, pipeVars>>

SelectStates ==
    \E ss \in SUBSET StateOptions(df, regions) :
        /\ ss # states
        /\ states' = ss
        /\ df_filtered' = Filtered(df, regions, ss, client_types, statuses)
        /\ UNCHANGED <<df, regions, client_types, statuses, pipeVars>>

SelectClientTypes ==
    \E cs \in SUBSET ClientTypeOptions :
        /\ cs # client_types
        /\ client_types' = cs
        /\ df_filtered' = Filtered(df, regions, states, cs, statuses)
        /\ UNCHANGED <<df, regions, states, statuses, pipeVars>>

SelectStatuses ==
    \E us \in SUBSET StatusOptions :
        /\ us # statuses
        /\ statuses' = us
        /\ df_filtered' = Filtered(df, regions, states, client_types, us)
        /\ UNCHANGED <<df, regions, states, client_types, pipeVars>>

NextDash == SelectRegions \/ SelectStates \/ SelectClientTypes \/ SelectStatuses

SpecDash == InitDash /\ [][NextDash]_vars

(***************************************************************************)
(* Properties.  They speak of the grid by position and of the merged rows  *)
(* by the position each came from, not through the operators above.        *)
(***************************************************************************)
\* The sheet was read: process_excel_tables got past pd.read_excel.
GridRead == pc # "start" /\ (err = <<>> \/ err[1].kind \notin LoadErrors)

Positions == 0..(Len(df_all) - 1)
GridRow(i) == df_all[i + 1]
Markers == {i \in Positions : IsMarkerRow(GridRow(i))}
Least(S) == CHOOSE x \in S : \A y \in S : x <= y
Marker1 == Least(Markers)
Marker2 == Least(Markers \ {Marker1})
Blank(i) == \A c \in 1..Len(GridRow(i)) : GridRow(i)[c] = NaN
Between ==
    LET m1 == Marker1
        m2 == Marker2
    IN  {i \in Positions : m1 < i /\ i < m2}
After ==
    LET m2 == Marker2
    IN  {i \in Positions : m2 < i}
Srcs(rows) == {rows[k].src : k \in 1..Len(rows)}
Merged == result[1]
NRows == Len(Merged.rows)
\* Row k of the merged table holds the cells of the grid row it came from,
\* but for the columns labelled "S/N".
SameCells(k) ==
    LET r == Merged.rows[k]
    IN  /\ Len(r.cells) = Len(GridRow(r.src))
        /\ \A c \in 1..Len(r.cells) :
              Merged.columns[c] # SeqLabel => r.cells[c] = GridRow(r.src)[c]

\* C1 as stated: with exactly two marker rows, wherever they are, the two
\* segments as split hold total_rows - 2 rows together.
C1_Original ==
    (split # <<>> /\ Cardinality(Markers) = 2)
        => Len(split[1]) + Len(split[2]) = Len(df_all) - 2

\* C1 amended: with exactly two marker rows the two segments as split hold
\* total_rows - 2 - (rows before the first marker) rows together: every
\* non-marker row after the first marker is in exactly one segment, and no
\* marker row and no row before the first marker is in any.
C1_SplitCount ==
    (split # <<>> /\ Cardinality(Markers) = 2)
        => /\ Len(split[1]) + Len(split[2]) = Len(df_all) - 2 - Marker1
           /\ Cardinality(Srcs(split[1])) = Len(split[1])
           /\ Cardinality(Srcs(split[2])) = Len(split[2])
           /\ Srcs(split[1]) \cap Srcs(split[2]) = {}
           /\ Srcs(split[1]) \cup Srcs(split[2])
                = {i \in Positions : i > Marker1 /\ i \notin Markers}
           /\ \A s \in 1..2 : \A k \in 1..Len(split[s]) :
                 split[s][k].cells = GridRow(split[s][k].src)

C1_Witness ==
    /\ split # <<>>
    /\ Cardinality(Markers) = 2
    /\ Marker1 > 0
    /\ split[1] # <<>>
    /\ split[2] # <<>>

\* C2 as stated: a grid with fewer than two marker rows makes the function
\* raise the error that carries the marker and the count found, and return
\* no table.
C2_Claim ==
    (GridRead /\ Cardinality(Markers) < 2)
        => /\ err = <<HeaderRowsError(header_marker, Cardinality(Markers))>>
           /\ result = <<>>

\* C3: the output file changes only in the step that follows a successful
\* merge, and then to the merged table; a run that failed leaves it as it was.
C3_WriteOnlyAfterMerge ==
    [][/\ (merged_clients_csv' # merged_clients_csv
             => /\ pc = "merged"
                /\ err = <<>>
                /\ result # <<>>
                /\ merged_clients_csv' = <<to_csv(result[1])>>)
       /\ (err # <<>> \/ err' # <<>> => merged_clients_csv' = merged_clients_csv)]_vars

C3_Witness ==
    /\ pc = "done"
    /\ err # <<>>
    /\ merged_clients_csv = <<OldCsv>>

\* C4: if a column label is "S/N", row k of the merged table (k = 1..N) holds
\* k in that column; if none is, every merged row holds the cells of its grid row.
C4_Renumbered ==
    result # <<>>
        => IF \E c \in 1..Len(Merged.columns) : Merged.columns[c] = SeqLabel
           THEN \A k \in 1..NRows : \A c \in 1..Len(Merged.columns) :
                   Merged.columns[c] = SeqLabel => Merged.rows[k].cells[c] = Num(k)
           ELSE \A k \in 1..NRows : Merged.rows[k].cells = GridRow(Merged.rows[k].src)

C4_Witness ==
    /\ result # <<>>
    /\ Merged.columns[1] = SeqLabel
    /\ NRows >= 3
    /\ \E k \in 1..NRows : GridRow(Merged.rows[k].src)[1] = Num(17)
    /\ \E k \in 1..NRows : GridRow(Merged.rows[k].src)[1] = NaN

\* C5: two merged rows from the same segment are in grid order, and every
\* merged row from segment A is before every merged row from segment B.
C5_OrderPreserving ==
    result # <<>>
        => LET segA == Between
               segB == After
               rows == Merged.rows
           IN  \A i, j \in 1..Len(rows) :
                  LET a == rows[i].src
                      b == rows[j].src
                  IN  /\ (a \in segA /\ b \in segA /\ a < b) => i < j
                      /\ (a \in segB /\ b \in segB /\ a < b) => i < j
                      /\ (a \in segA /\ b \in segB) => i < j

C5_Witness ==
    /\ result # <<>>
    /\ Cardinality(Srcs(Merged.rows) \cap Between) >= 2
    /\ Cardinality(Srcs(Merged.rows) \cap After) >= 1

\* C6 as stated: when a segment has no row left after cleaning, the error
\* raised names the segment that is empty.
C6_Original ==
    (GridRead /\ Cardinality(Markers) >= 2
       /\ (\A i \in Between : Blank(i)) # (\A i \in After : Blank(i)))
        => /\ err # <<>>
           /\ err[1].segment = IF \A i \in After : Blank(i) THEN "B" ELSE "A"

\* C6 amended: when a segment has no row left after cleaning, the function
\* raises the error "One or both extracted tables are empty.", the same
\* whichever segment is empty, and returns no table.
C6_EmptyTables ==
    (GridRead /\ Cardinality(Markers) >= 2
       /\ ((\A i \in Between : Blank(i)) \/ (\A i \in After : Blank(i))))
        => /\ err = <<EmptyTablesError>>
           /\ err[1].segment = ""
           /\ result = <<>>
           /\ pc \in {"failed", "done"}

C6_Witness ==
    /\ GridRead
    /\ Cardinality(Markers) = 2
    /\ \E i \in Between : ~Blank(i)
    /\ After # {}
    /\ \A i \in After : Blank(i)
    /\ err = <<EmptyTablesError>>

\* C7: the merged rows are exactly the rows of the two segments that are not
\* fully empty, each once.
C7_NonEmptyRowsOnly ==
    result # <<>>
        => /\ \A k \in 1..NRows : ~Blank(Merged.rows[k].src)
           /\ Srcs(Merged.rows) = {i \in Between \cup After : ~Blank(i)}
           /\ NRows = Cardinality({i \in Between : ~Blank(i)})
                        + Cardinality({i \in After : ~Blank(i)})
           /\ \A k \in 1..NRows : SameCells(k)

C7_Witness ==
    /\ result # <<>>
    /\ \E i \in Between \cup After : Blank(i)
    /\ \E i \in Between \cup After : GridRow(i) = PartRow
    /\ NRows = 2

\* C8 as stated: every merged row carries the label of its segment, in one
\* column more than the header has.
C8_Original ==
    result # <<>>
        => /\ Len(Merged.columns) = Len(GridRow(Marker1)) + 1
           /\ \A k \in 1..NRows :
                 LET r == Merged.rows[k]
                 IN  /\ Len(r.cells) = Len(GridRow(Marker1)) + 1
                     /\ r.cells[Len(r.cells)]
                          = IF r.src \in Between THEN Str(<<"Corporate">>)
                            ELSE Str(<<"Retail">>)

\* C8 amended: the merged table has exactly the columns of the header row
\* and no row carries an origin value: a row holds header-length cells, the
\* cells of its grid row (but for the renumbered column).
C8_NoOriginColumn ==
    result # <<>>
        => /\ Merged.columns = GridRow(Marker1)
           /\ \A k \in 1..NRows :
                 /\ Len(Merged.rows[k].cells) = Len(GridRow(Marker1))
                 /\ SameCells(k)
                 /\ \A c \in 1..Len(Merged.rows[k].cells) :
                       Merged.rows[k].cells[c]
                         \notin {Str(<<"Corporate">>), Str(<<"Retail">>)}

C8_Witness ==
    /\ result # <<>>
    /\ pc = "done"
    /\ merged_clients_csv = <<to_csv(Merged)>>
    /\ Srcs(Merged.rows) \cap Between # {}
    /\ Srcs(Merged.rows) \cap After # {}

\* C10: with more than two marker rows, segment A is the rows strictly
\* between the first two, segment B every row after the second, and each
\* later marker row is a row of the merged table, after the rows of A.
C10_ExtraMarkers ==
    (result # <<>> /\ Cardinality(Markers) > 2)
        => /\ Srcs(split[1]) = Between
           /\ Srcs(split[2]) = After
           /\ Merged.columns = GridRow(Marker1)
           /\ \A m \in Markers \ {Marker1, Marker2} :
                 \E k \in 1..NRows :
                    /\ Merged.rows[k].src = m
                    /\ SameCells(k)
                    /\ \A j \in 1..NRows : Merged.rows[j].src \in Between => j < k

C10_Witness ==
    /\ result # <<>>
    /\ Cardinality(Markers) = 3
    /\ \E m \in Markers : \E i \in After : m > Marker2 /\ i > m /\ ~Blank(i)

(***************************************************************************)
(* Dashboard property                                                      *)
(***************************************************************************)
\* Row k of df passes a selection that is empty or holds its value.
Passes(k) ==
    /\ (regions # {} => df[k].region \in regions)
    /\ (states # {} => df[k].state \in states)
    /\ (client_types # {} => df[k].client \in client_types)
    /\ (statuses # {} => df[k].status \in statuses)

\* C9: df_filtered is the rows of df, in order, that pass all four
\* selections; with the four selections empty it is df.
C9_FilterIsConjunction ==
    /\ \E f \in [1..Len(df_filtered) -> 1..Len(df)] :
          /\ \A a, b \in 1..Len(df_filtered) : a < b => f[a] < f[b]
          /\ \A a \in 1..Len(df_filtered) : df_filtered[a] = df[f[a]] /\ Passes(f[a])
          /\ \A k \in 1..Len(df) : Passes(k) => \E a \in 1..Len(df_filtered) : f[a] = k
    /\ (regions = {} /\ states = {} /\ client_types = {} /\ statuses = {})
          => df_filtered = df

C9_Witness ==
    /\ Len(df) = 2
    /\ Len(df_filtered) = 1
    /\ regions # {}
    /\ client_types # {}
    /\ states = {}
    /\ \E k \in 1..2 : df[k].region \in regions /\ df[k].client \notin client_types

====
